---- MODULE Spec2Model ----
(***************************************************************************)
(* A model of the Version value type of src/main.py: the parser, the       *)
(* validator, the constructor, the formatter and the comparison methods.   *)
(*                                                                         *)
(* A Python str is modelled as a sequence of one-character strings, so     *)
(* that splitting, indexing and character tests are computed as the code   *)
(* computes them.  An optional value (str | None) is the empty sequence    *)
(* for None and a one-element sequence <<v>> for a present value v.        *)
(***************************************************************************)
EXTENDS Integers, Sequences, FiniteSets, TLC

VARIABLES
    pc,         \* position of the client: which operation ran last
    version,    \* the string handed to Version(...)
    made,       \* outcome of Version(version): raised error or the object
    text,       \* str(obj) of the constructed object
    remade,     \* outcome of Version(text)
    objs,       \* the operands of the comparison methods
    op,         \* the comparison method called last
    ret         \* what that method returned (or the table of results)

vars == <<pc, version, made, text, remade, objs, op, ret>>

None == <<>>
Some(v) == <<v>>

(***************************************************************************)
(* Python str methods used by the code                                     *)
(***************************************************************************)

\* c in s
Contains(s, c) == \E i \in 1..Len(s) : s[i] = c

\* s.split(c, 1) when c occurs in s: the text before and after the first c
SplitOnce(s, c) ==
    LET i == CHOOSE k \in 1..Len(s) : s[k] = c /\ \A j \in 1..(k-1) : s[j] # c
    IN  <<SubSeq(s, 1, i - 1), SubSeq(s, i + 1, Len(s))>>

\* s.split(c): always at least one part, empty parts kept
RECURSIVE Split(_, _)
Split(s, c) ==
    IF Contains(s, c)
    THEN LET p == SplitOnce(s, c) IN <<p[1]>> \o Split(p[2], c)
    ELSE <<s>>

\* c.join(parts)
RECURSIVE Join(_, _)
Join(parts, c) ==
    IF Len(parts) = 0 THEN <<>>
    ELSE IF Len(parts) = 1 THEN parts[1]
    ELSE parts[1] \o <<c>> \o Join(Tail(parts), c)

DigitChars == <<"0", "1", "2", "3", "4", "5", "6", "7", "8", "9">>
UpperChars == <<"A", "B", "C", "D", "E", "F", "G", "H", "I", "J", "K", "L", "M",
                "N", "O", "P", "Q", "R", "S", "T", "U", "V", "W", "X", "Y", "Z">>
LowerChars == <<"a", "b", "c", "d", "e", "f", "g", "h", "i", "j", "k", "l", "m",
                "n", "o", "p", "q", "r", "s", "t", "u", "v", "w", "x", "y", "z">>

Range(f) == {f[i] : i \in DOMAIN f}
IndexOf(seq, c) == CHOOSE i \in DOMAIN seq : seq[i] = c

\* s.isdigit(): non-empty and every character a digit
isdigit(s) == Len(s) > 0 /\ \A i \in 1..Len(s) : s[i] \in Range(DigitChars)

\* int(s) for a string of decimal digits
RECURSIVE int(_)
int(s) ==
    IF Len(s) = 0 THEN 0
    ELSE 10 * int(SubSeq(s, 1, Len(s) - 1)) + (IndexOf(DigitChars, s[Len(s)]) - 1)

\* str(n) for a non-negative integer
RECURSIVE str(_)
str(n) ==
    IF n < 10 THEN <<DigitChars[n + 1]>>
    ELSE str(n \div 10) \o <<DigitChars[(n % 10) + 1]>>

(***************************************************************************)
(* Version: class data                                                     *)
(***************************************************************************)

core_identifiers == <<"major", "minor", "patch">>
optional_identifiers == <<"pre_release", "build">>

Alphanumeric_Hyphen ==
    Range(DigitChars) \cup Range(UpperChars) \cup Range(LowerChars) \cup {"-"}

SEMVER_IDENTIFIER_VALID_CHARS ==
    [major |-> Range(DigitChars), minor |-> Range(DigitChars),
     patch |-> Range(DigitChars),
     pre_release |-> Alphanumeric_Hyphen, build |-> Alphanumeric_Hyphen]

(***************************************************************************)
(* Errors: a ValueError is modelled by what its message says, the kind of  *)
(* violation and the identifier it names.                                  *)
(***************************************************************************)

NoError == [kind |-> "none", identifier |-> "none"]
ValueError(kind, identifier) == [kind |-> kind, identifier |-> identifier]

(***************************************************************************)
(* Version._parse_version_string                                           *)
(***************************************************************************)

_parse_version_string(v) ==
    LET hasBuild == Contains(v, "+")
        v1 == IF hasBuild THEN SplitOnce(v, "+")[1] ELSE v
        build == IF hasBuild THEN Some(SplitOnce(v, "+")[2]) ELSE None
        hasPre == Contains(v1, "-")
        v2 == IF hasPre THEN SplitOnce(v1, "-")[1] ELSE v1
        pre == IF hasPre THEN Some(SplitOnce(v1, "-")[2]) ELSE None
        core == Split(v2, ".")
    IN  IF Len(core) # Len(core_identifiers)
        THEN [error |-> ValueError("arity", "core"), identifiers |-> None]
        ELSE [error |-> NoError,
              identifiers |-> Some([major |-> Some(core[1]), minor |-> Some(core[2]),
                                    patch |-> Some(core[3]),
                                    pre_release |-> pre, build |-> build])]

(***************************************************************************)
(* Version._validate                                                       *)
(***************************************************************************)

\* _validate with the leading-zero test applied to the build as well
_validate_BuildToo(identifier, value) ==
    IF Len(value) = 0 THEN ValueError("empty", identifier)
    ELSE IF identifier \notin DOMAIN SEMVER_IDENTIFIER_VALID_CHARS
    THEN ValueError("unknown", identifier)
    ELSE IF Len(value) > 1 /\ isdigit(value) /\ value[1] = "0"
    THEN ValueError("leading_zero", identifier)
    ELSE IF \E i \in 1..Len(value) :
                value[i] \notin SEMVER_IDENTIFIER_VALID_CHARS[identifier]
    THEN ValueError("invalid", identifier)
    ELSE NoError

_validate(identifier, value) ==
    IF Len(value) = 0 THEN ValueError("empty", identifier)
    ELSE IF identifier \notin DOMAIN SEMVER_IDENTIFIER_VALID_CHARS
    THEN ValueError("unknown", identifier)
    ELSE IF identifier # "build" /\ Len(value) > 1 /\ isdigit(value) /\ value[1] = "0"
    THEN ValueError("leading_zero", identifier)
    ELSE IF \E i \in 1..Len(value) :
                value[i] \notin SEMVER_IDENTIFIER_VALID_CHARS[identifier]
    THEN ValueError("invalid", identifier)
    ELSE NoError

(***************************************************************************)
(* Version._validate_identiiers: the core identifiers first, whole; then   *)
(* the optional ones that are present, part by part.  The first error      *)
(* raised is the one that surfaces.                                         *)
(***************************************************************************)

\* the optional identifiers validated before the core ones
ValidationOrder_OptionalFirst == optional_identifiers \o core_identifiers

ValidationOrder == core_identifiers \o optional_identifiers

\* the values _validate is called on for one identifier, in order
PartsToValidate(identifiers, identifier) ==
    LET value == identifiers[identifier]
    IN  IF identifier \in Range(core_identifiers) THEN <<value[1]>>
        ELSE IF value = None THEN <<>>
        ELSE Split(value[1], ".")

RECURSIVE FirstError(_, _)
FirstError(identifier, parts) ==
    IF Len(parts) = 0 THEN NoError
    ELSE LET e == _validate(identifier, parts[1])
         IN  IF e # NoError THEN e ELSE FirstError(identifier, Tail(parts))

RECURSIVE ValidateInOrder(_, _)
ValidateInOrder(identifiers, order) ==
    IF Len(order) = 0 THEN NoError
    ELSE LET e == FirstError(order[1], PartsToValidate(identifiers, order[1]))
         IN  IF e # NoError THEN e ELSE ValidateInOrder(identifiers, Tail(order))

_validate_identiiers(identifiers) == ValidateInOrder(identifiers, ValidationOrder)

(***************************************************************************)
(* Version.__init__: parse, validate, then set the attributes.  An error   *)
(* leaves no object.                                                        *)
(***************************************************************************)

__init__(v) ==
    LET parsed == _parse_version_string(v)
    IN  IF parsed.error # NoError THEN [error |-> parsed.error, obj |-> None]
        ELSE LET ids == parsed.identifiers[1]
                 e == _validate_identiiers(ids)
             IN  IF e # NoError THEN [error |-> e, obj |-> None]
                 ELSE [error |-> NoError,
                       obj |-> Some([cls |-> "Version",
                                     major |-> int(ids.major[1]),
                                     minor |-> int(ids.minor[1]),
                                     patch |-> int(ids.patch[1]),
                                     pre_release |-> ids.pre_release,
                                     build |-> ids.build])]

\* truthiness of a str | None: None and "" are falsy
Truthy(opt) == opt # None /\ Len(opt[1]) > 0

(***************************************************************************)
(* Version.__str__                                                         *)
(***************************************************************************)

\* __str__ without the build
__str__NoBuild(self) ==
    Join(<<str(self.major), str(self.minor), str(self.patch)>>, ".")
    \o (IF Truthy(self.pre_release) THEN <<"-">> \o self.pre_release[1] ELSE <<>>)

__str__(self) ==
    Join(<<str(self.major), str(self.minor), str(self.patch)>>, ".")
    \o (IF Truthy(self.pre_release) THEN <<"-">> \o self.pre_release[1] ELSE <<>>)
    \o (IF Truthy(self.build) THEN <<"+">> \o self.build[1] ELSE <<>>)

(***************************************************************************)
(* Python values returned by the comparison methods                        *)
(***************************************************************************)

NotImplemented == "NotImplemented"
Bool(b) == IF b THEN "True" ELSE "False"
Not(r) == IF r = "True" THEN "False" ELSE "True"

\* isinstance(other, Version)
isinstance_Version(other) == other.cls = "Version"

\* safe_comparison answering False for a value that is not a Version
safe_comparison_False(other, result) ==
    IF ~isinstance_Version(other) THEN "False" ELSE result

\* Version.safe_comparison: the wrapped method runs only on a Version
safe_comparison(other, result) ==
    IF ~isinstance_Version(other) THEN NotImplemented ELSE result

\* ord(c) of a character of the pre-release alphabet
ord(c) ==
    IF c = "-" THEN 45
    ELSE IF c \in Range(DigitChars) THEN 47 + IndexOf(DigitChars, c)
    ELSE IF c \in Range(UpperChars) THEN 64 + IndexOf(UpperChars, c)
    ELSE 96 + IndexOf(LowerChars, c)

\* p1 > p2 on str: by code point at the first difference, a proper prefix is less
RECURSIVE StrGreater(_, _)
StrGreater(p1, p2) ==
    IF Len(p1) = 0 THEN FALSE
    ELSE IF Len(p2) = 0 THEN TRUE
    ELSE IF p1[1] # p2[1] THEN ord(p1[1]) > ord(p2[1])
    ELSE StrGreater(Tail(p1), Tail(p2))

(***************************************************************************)
(* Version.__eq__                                                          *)
(***************************************************************************)

\* __eq__ that looks at the build too
__eq__WithBuild(self, other) ==
    safe_comparison(other,
        Bool(/\ self.major = other.major
             /\ self.minor = other.minor
             /\ self.patch = other.patch
             /\ self.pre_release = other.pre_release
             /\ self.build = other.build))

__eq__(self, other) ==
    safe_comparison(other,
        Bool(/\ self.major = other.major
             /\ self.minor = other.minor
             /\ self.patch = other.patch
             /\ self.pre_release = other.pre_release))

(***************************************************************************)
(* Version.__gt__                                                          *)
(***************************************************************************)

\* the loop over the core identifiers comparing the numbers as text
RECURSIVE CompareCore_AsText(_, _, _)
CompareCore_AsText(self, other, ids) ==
    IF Len(ids) = 0 THEN "next"
    ELSE IF StrGreater(str(self[ids[1]]), str(other[ids[1]])) THEN "True"
    ELSE IF StrGreater(str(other[ids[1]]), str(self[ids[1]])) THEN "False"
    ELSE CompareCore_AsText(self, other, Tail(ids))

\* the loop over the core identifiers: "True", "False", or "next" when it
\* ends without returning
RECURSIVE CompareCore(_, _, _)
CompareCore(self, other, ids) ==
    IF Len(ids) = 0 THEN "next"
    ELSE IF self[ids[1]] > other[ids[1]] THEN "True"
    ELSE IF self[ids[1]] < other[ids[1]] THEN "False"
    ELSE CompareCore(self, other, Tail(ids))

\* self.pre_release.split(".") if self.pre_release else []
pr_parts(obj) ==
    IF Truthy(obj.pre_release) THEN Split(obj.pre_release[1], ".") ELSE <<>>

\* the zip loop's pair with every pair of segments compared as text
ComparePart_AllStrings(p1, p2) ==
    IF p1 = p2 THEN "next" ELSE Bool(StrGreater(p1, p2))

\* the zip loop's pair without the rule for one numeric segment
ComparePart_NoMixedRule(p1, p2) ==
    IF p1 = p2 THEN "next"
    ELSE IF isdigit(p1) /\ isdigit(p2) THEN Bool(int(p1) > int(p2))
    ELSE Bool(StrGreater(p1, p2))

\* one pair of the zip loop: "True", "False", or "next" for continue
ComparePart(p1, p2) ==
    IF p1 = p2 THEN "next"
    ELSE IF isdigit(p1) /\ isdigit(p2) THEN Bool(int(p1) > int(p2))
    ELSE IF isdigit(p1) THEN "False"
    ELSE IF isdigit(p2) THEN "True"
    ELSE Bool(StrGreater(p1, p2))

\* the zip loop ending on len(self_pr_parts) >= len(other_pr_parts)
RECURSIVE ComparePreRelease_GE(_, _)
ComparePreRelease_GE(ps, qs) ==
    IF Len(ps) = 0 \/ Len(qs) = 0 THEN Bool(Len(ps) >= Len(qs))
    ELSE LET r == ComparePart(ps[1], qs[1])
         IN  IF r # "next" THEN r ELSE ComparePreRelease_GE(Tail(ps), Tail(qs))

\* the loop over zip(self_pr_parts, other_pr_parts), then the length test
RECURSIVE ComparePreRelease(_, _)
ComparePreRelease(ps, qs) ==
    IF Len(ps) = 0 \/ Len(qs) = 0 THEN Bool(Len(ps) > Len(qs))
    ELSE LET r == ComparePart(ps[1], qs[1])
         IN  IF r # "next" THEN r ELSE ComparePreRelease(Tail(ps), Tail(qs))

\* __gt__ with the pre-release above the release
__gt__PreReleaseAbove(self, other) ==
    safe_comparison(other,
        LET core == CompareCore(self, other, core_identifiers)
        IN  IF core # "next" THEN core
            ELSE IF self.pre_release = None /\ other.pre_release = None THEN "False"
            ELSE IF self.pre_release = None /\ other.pre_release # None THEN "False"
            ELSE IF self.pre_release # None /\ other.pre_release = None THEN "True"
            ELSE ComparePreRelease(pr_parts(self), pr_parts(other)))

__gt__(self, other) ==
    safe_comparison(other,
        LET core == CompareCore(self, other, core_identifiers)
        IN  IF core # "next" THEN core
            ELSE IF self.pre_release = None /\ other.pre_release = None THEN "False"
            ELSE IF self.pre_release = None /\ other.pre_release # None THEN "True"
            ELSE IF self.pre_release # None /\ other.pre_release = None THEN "False"
            ELSE ComparePreRelease(pr_parts(self), pr_parts(other)))

(***************************************************************************)
(* The methods the class does not write: object.__ne__ inverts __eq__, and *)
(* total_ordering fills in __lt__, __le__ and __ge__ from __gt__, the only *)
(* ordering method defined.  Each hands NotImplemented through.            *)
(***************************************************************************)

__ne__(self, other) ==
    LET r == __eq__(self, other)
    IN  IF r = NotImplemented THEN NotImplemented ELSE Not(r)

__lt__(self, other) ==
    LET op_result == __gt__(self, other)
    IN  IF op_result = NotImplemented THEN NotImplemented
        ELSE Bool(op_result = "False" /\ __ne__(self, other) = "True")

__le__(self, other) ==
    LET op_result == __gt__(self, other)
    IN  IF op_result = NotImplemented THEN NotImplemented
        ELSE Not(op_result)

__ge__(self, other) ==
    LET op_result == __gt__(self, other)
    IN  IF op_result = NotImplemented THEN NotImplemented
        ELSE Bool(op_result = "True" \/ __eq__(self, other) = "True")

(***************************************************************************)
(* Inputs.  The strings handed to Version(...) are every string over       *)
(* Alphabet of length at most MaxLen, and the strings CORE[-PRE][+BUILD]   *)
(* put together from the parts below, which the parser takes apart again.  *)
(***************************************************************************)

MaxLen == 6
MaxSegs == 2

Alphabet == {"0", "1", "!", ".", "-", "+"}

StringsUpTo(alphabet, n) == UNION {[1..k -> alphabet] : k \in 0..n}

CoreSegs == {<<"0">>, <<"1", "0">>, <<"0", "1">>, <<>>}
ShortCoreSegs == {<<"0">>, <<"0", "1">>}
PreSegs == {<<"0">>, <<"0", "1">>, <<"a", "-">>, <<>>, <<"!">>}
BuildSegs == {<<"0", "1">>, <<"a", "-">>, <<>>, <<"+">>}

\* the dotted texts of 1..n segments drawn from segs
Dotted(segs, n) == {Join(q, ".") : q \in UNION {[1..k -> segs] : k \in 1..n}}

Cores ==
    {Join(q, ".") : q \in [1..Len(core_identifiers) -> CoreSegs]}
    \cup {Join(q, ".") : q \in UNION {[1..k -> ShortCoreSegs] : k \in {1, 2, 4}}}

OptionalSuffixes(mark, segs) ==
    {<<>>} \cup {<<mark>> \o raw : raw \in Dotted(segs, MaxSegs)}

\* s is one of the inputs
IsParseInput(s) ==
    \/ s \in StringsUpTo(Alphabet, MaxLen)
    \/ \E c \in Cores, p \in OptionalSuffixes("-", PreSegs),
          b \in OptionalSuffixes("+", BuildSegs) : s = c \o p \o b

(***************************************************************************)
(* The client of the constructor and the formatter: it constructs a        *)
(* Version from a string, renders the object, constructs again from the    *)
(* rendered string and compares the two objects.                            *)
(***************************************************************************)

NoOutcome == [error |-> NoError, obj |-> None]

InitParse ==
    /\ pc = "start"
    /\ IsParseInput(version)
    /\ made = NoOutcome
    /\ text = <<>>
    /\ remade = NoOutcome
    /\ objs = <<>>
    /\ op = "none"
    /\ ret = "none"

Construct ==
    /\ pc = "start"
    /\ made' = __init__(version)
    /\ pc' = "constructed"
    /\ UNCHANGED <<version, text, remade, objs, op, ret>>

Render ==
    /\ pc = "constructed"
    /\ made.obj # None
    /\ text' = __str__(made.obj[1])
    /\ pc' = "rendered"
    /\ UNCHANGED <<version, made, remade, objs, op, ret>>

Reconstruct ==
    /\ pc = "rendered"
    /\ remade' = __init__(text)
    /\ pc' = "reconstructed"
    /\ UNCHANGED <<version, made, text, objs, op, ret>>

CompareRemade ==
    /\ pc = "reconstructed"
    /\ remade.obj # None
    /\ objs' = <<made.obj[1], remade.obj[1]>>
    /\ op' = "__eq__"
    /\ ret' = __eq__(made.obj[1], remade.obj[1])
    /\ pc' = "compared"
    /\ UNCHANGED <<version, made, text, remade>>

NextParse == Construct \/ Render \/ Reconstruct \/ CompareRemade

SpecParse == InitParse /\ [][NextParse]_vars

(***************************************************************************)
(* Operands of the comparison methods.  Every Version is made by the       *)
(* constructor from a string.  The strings sweep the core triples with a   *)
(* few pre-releases and every build, and sweep the pre-releases of up to   *)
(* MaxPreSegs segments on one core triple.  The values that are not        *)
(* Versions are the two of the tests, the int 3 and the str '1.0.0', each   *)
(* kept as its class and its text.                                          *)
(***************************************************************************)

MaxPreSegs == 2
MaxOrderSegs == 2

CmpNums == {<<"2">>, <<"1", "0">>}
CmpCores == {Join(q, ".") : q \in [1..3 -> CmpNums]}
OneCore == {<<"2", ".", "2", ".", "2">>}
CmpPreSegs == {<<"2">>, <<"1", "0">>, <<"a">>, <<"B">>, <<"1", "a">>}
FewPres == {<<>>, <<"-", "2">>, <<"-", "a">>}
CmpBuilds == {<<>>, <<"+", "a">>, <<"+", "b">>}

Suffixes(mark, segs, n) == {<<>>} \cup {<<mark>> \o raw : raw \in Dotted(segs, n)}

CmpInputs ==
    {c \o p \o b : c \in CmpCores, p \in FewPres, b \in CmpBuilds}
    \cup {c \o p \o b : c \in OneCore, p \in Suffixes("-", CmpPreSegs, MaxPreSegs),
                        b \in {<<>>, <<"+", "b">>}}

Constructed(inputs) ==
    {__init__(s).obj[1] : s \in {x \in inputs : __init__(x).obj # None}}

Versions == Constructed(CmpInputs)

NonVersions ==
    {[cls |-> "int", value |-> <<"3">>],
     [cls |-> "str", value |-> <<"1", ".", "0", ".", "0">>]}

(***************************************************************************)
(* The client of the comparison methods calls the six of them on one pair  *)
(* of operands, in the order of the tests' list of dunders, and keeps what *)
(* each returned.                                                           *)
(***************************************************************************)

InitCompare ==
    /\ pc = "ready"
    /\ version = <<>>
    /\ made = NoOutcome
    /\ text = <<>>
    /\ remade = NoOutcome
    /\ objs \in Versions \X (Versions \cup NonVersions)
    /\ op = "none"
    /\ ret = <<>>

Call__eq__ ==
    /\ pc = "ready"
    /\ pc' = "__eq__"
    /\ op' = "__eq__"
    /\ ret' = ret @@ ("__eq__" :> __eq__(objs[1], objs[2]))
    /\ UNCHANGED <<version, made, text, remade, objs>>

Call__gt__ ==
    /\ pc = "__eq__"
    /\ pc' = "__gt__"
    /\ op' = "__gt__"
    /\ ret' = ret @@ ("__gt__" :> __gt__(objs[1], objs[2]))
    /\ UNCHANGED <<version, made, text, remade, objs>>

Call__ne__ ==
    /\ pc = "__gt__"
    /\ pc' = "__ne__"
    /\ op' = "__ne__"
    /\ ret' = ret @@ ("__ne__" :> __ne__(objs[1], objs[2]))
    /\ UNCHANGED <<version, made, text, remade, objs>>

Call__lt__ ==
    /\ pc = "__ne__"
    /\ pc' = "__lt__"
    /\ op' = "__lt__"
    /\ ret' = ret @@ ("__lt__" :> __lt__(objs[1], objs[2]))
    /\ UNCHANGED <<version, made, text, remade, objs>>

Call__le__ ==
    /\ pc = "__lt__"
    /\ pc' = "__le__"
    /\ op' = "__le__"
    /\ ret' = ret @@ ("__le__" :> __le__(objs[1], objs[2]))
    /\ UNCHANGED <<version, made, text, remade, objs>>

Call__ge__ ==
    /\ pc = "__le__"
    /\ pc' = "__ge__"
    /\ op' = "__ge__"
    /\ ret' = ret @@ ("__ge__" :> __ge__(objs[1], objs[2]))
    /\ UNCHANGED <<version, made, text, remade, objs>>

NextCompare ==
    \/ Call__eq__
    \/ Call__gt__
    \/ Call__ne__
    \/ Call__lt__
    \/ Call__le__
    \/ Call__ge__

SpecCompare == InitCompare /\ [][NextCompare]_vars

(***************************************************************************)
(* The client of the ordering: three Versions a, b, c and __gt__ called on *)
(* (a, b), (b, c) and (a, c).                                               *)
(***************************************************************************)

OrderCores == {<<"2", ".", "2", ".", "2">>, <<"2", ".", "1", "0", ".", "2">>,
               <<"1", "0", ".", "2", ".", "2">>}
OrderPreSegs == {<<"2">>, <<"1", "0">>, <<"a">>, <<"1", "a">>}

OrderInputs ==
    {c \o p : c \in OrderCores, p \in {<<>>, <<"-", "a">>}}
    \cup {c \o p : c \in OneCore, p \in Suffixes("-", OrderPreSegs, MaxOrderSegs)}
    \cup {c \o <<"+", "b">> : c \in OneCore}

OrderVersions == Constructed(OrderInputs)

InitOrder ==
    /\ pc = "ready"
    /\ version = <<>>
    /\ made = NoOutcome
    /\ text = <<>>
    /\ remade = NoOutcome
    /\ objs \in OrderVersions \X OrderVersions \X OrderVersions
    /\ op = "none"
    /\ ret = <<>>

GtAB ==
    /\ pc = "ready"
    /\ pc' = "ab"
    /\ op' = "__gt__"
    /\ ret' = ret @@ ("ab" :> __gt__(objs[1], objs[2]))
    /\ UNCHANGED <<version, made, text, remade, objs>>

GtBC ==
    /\ pc = "ab"
    /\ pc' = "bc"
    /\ op' = "__gt__"
    /\ ret' = ret @@ ("bc" :> __gt__(objs[2], objs[3]))
    /\ UNCHANGED <<version, made, text, remade, objs>>

GtAC ==
    /\ pc = "bc"
    /\ pc' = "ac"
    /\ op' = "__gt__"
    /\ ret' = ret @@ ("ac" :> __gt__(objs[1], objs[3]))
    /\ UNCHANGED <<version, made, text, remade, objs>>

NextOrder == GtAB \/ GtBC \/ GtAC

SpecOrder == InitOrder /\ [][NextOrder]_vars

(***************************************************************************)
(* The grammar, stated on the characters of the string and not through     *)
(* the parser: the build is the text after the first '+', the pre-release  *)
(* the text after the first '-' of what precedes it, the core the rest.    *)
(***************************************************************************)

Positions(s, c) == {i \in 1..Len(s) : s[i] = c}
Min(S) == CHOOSE x \in S : \A y \in S : x <= y

\* where the text before the first c ends: at the first c, or past the end
Cut(s, c) == IF Positions(s, c) = {} THEN Len(s) + 1 ELSE Min(Positions(s, c))

RestOf(s) == SubSeq(s, 1, Cut(s, "+") - 1)
HasBuildText(s) == Positions(s, "+") # {}
BuildText(s) == SubSeq(s, Cut(s, "+") + 1, Len(s))
HasPreText(s) == Positions(RestOf(s), "-") # {}
PreText(s) == SubSeq(RestOf(s), Cut(RestOf(s), "-") + 1, Len(RestOf(s)))
CoreText(s) == SubSeq(RestOf(s), 1, Cut(RestOf(s), "-") - 1)

\* the dot-separated segments of s are the maximal dot-free stretches i..j
IsSegment(s, i, j) ==
    /\ i \in 1..Len(s) /\ j \in i..Len(s)
    /\ \A k \in i..j : s[k] # "."
    /\ (i = 1 \/ s[i - 1] = ".")
    /\ (j = Len(s) \/ s[j + 1] = ".")

\* no segment is empty: the text is not empty, and no dot is first, last or doubled
NoEmptySegment(s) ==
    /\ Len(s) > 0
    /\ s[1] # "." /\ s[Len(s)] # "."
    /\ \A i \in 1..(Len(s) - 1) : ~(s[i] = "." /\ s[i + 1] = ".")

OnlyChars(s, chars) == \A i \in 1..Len(s) : s[i] = "." \/ s[i] \in chars

\* no all-digit segment longer than one character starts with '0'
NoLeadingZero(s) ==
    \A i \in 1..Len(s) : \A j \in (i + 1)..Len(s) :
        ~(/\ IsSegment(s, i, j)
          /\ s[i] = "0"
          /\ \A k \in i..j : s[k] \in Range(DigitChars))

WellFormed(s) ==
    /\ Cardinality(Positions(CoreText(s), ".")) = 2
    /\ NoEmptySegment(CoreText(s))
    /\ OnlyChars(CoreText(s), Range(DigitChars))
    /\ NoLeadingZero(CoreText(s))
    /\ HasPreText(s) =>
          /\ NoEmptySegment(PreText(s))
          /\ OnlyChars(PreText(s), Alphanumeric_Hyphen)
          /\ NoLeadingZero(PreText(s))
    /\ HasBuildText(s) =>
          /\ NoEmptySegment(BuildText(s))
          /\ OnlyChars(BuildText(s), Alphanumeric_Hyphen)

Constructing == pc \in {"constructed", "rendered", "reconstructed", "compared"}

\* C4: Version(s) succeeds exactly on the strings of the grammar
\* core[-pre][+build]; every other string raises an error and leaves no
\* Version.
C4_AcceptsExactlyTheGrammar ==
    Constructing =>
        /\ (made.obj # None) <=> WellFormed(version)
        /\ (made.obj = None) <=> (made.error # NoError)

\* a string with a pre-release and a build of two segments each was accepted
C4_Witness ==
    /\ pc = "constructed"
    /\ made.obj # None
    /\ HasPreText(version) /\ Positions(PreText(version), ".") # {}
    /\ HasBuildText(version) /\ Positions(BuildText(version), ".") # {}
    /\ BuildText(version)[1] = "0"

\* C3: str(Version(s)) is s itself, Version of the rendered string succeeds
\* and the object it makes equals the first.
C3_RoundTrip ==
    /\ pc \in {"rendered", "reconstructed", "compared"} => text = version
    /\ pc \in {"reconstructed", "compared"} => remade.obj # None
    /\ pc = "compared" => ret = "True"

\* the round trip of a string with a two-digit number, a pre-release and a build
C3_Witness ==
    /\ pc = "compared"
    /\ made.obj[1].major = 10
    /\ HasPreText(version)
    /\ HasBuildText(version)
    /\ text = version

(***************************************************************************)
(* The error a slot has on its own, whatever the order of validation.      *)
(***************************************************************************)

ArityWrong(s) == Cardinality(Positions(CoreText(s), ".")) # 2

SlotError(identifier, raw) == FirstError(identifier, Split(raw, "."))

BuildError(s) == IF HasBuildText(s) THEN SlotError("build", BuildText(s)) ELSE NoError
PreError(s) == IF HasPreText(s) THEN SlotError("pre_release", PreText(s)) ELSE NoError

\* the error of the first invalid core identifier, major then minor then patch
CoreError(s) ==
    LET core == Split(CoreText(s), ".")
        bad == {i \in 1..3 : _validate(core_identifiers[i], core[i]) # NoError}
    IN  IF bad = {} THEN NoError
        ELSE _validate(core_identifiers[Min(bad)], core[Min(bad)])

\* C10 as stated: the error that surfaces is the build's if the build is
\* invalid, otherwise the pre-release's if it is invalid, otherwise the core's.
\* (Read in the claim's favour: a core that does not split into three
\* identifiers fails in the parser, before any slot is validated.)
C10_BuildFirst ==
    (Constructing /\ made.error # NoError) =>
        made.error =
            IF ArityWrong(version) THEN ValueError("arity", "core")
            ELSE IF BuildError(version) # NoError THEN BuildError(version)
            ELSE IF PreError(version) # NoError THEN PreError(version)
            ELSE CoreError(version)

\* C10 amended: the error that surfaces is the core's first (a core that
\* does not split into three identifiers, otherwise the first invalid one of
\* major, minor, patch), otherwise the pre-release's if it is invalid,
\* otherwise the build's.
C10_CoreFirst ==
    (Constructing /\ made.error # NoError) =>
        made.error =
            IF ArityWrong(version) THEN ValueError("arity", "core")
            ELSE IF CoreError(version) # NoError THEN CoreError(version)
            ELSE IF PreError(version) # NoError THEN PreError(version)
            ELSE BuildError(version)

\* a leading zero in major together with an empty build, as in '01.0.0+':
\* the error that surfaced is major's
C10_Witness ==
    /\ pc = "constructed"
    /\ ~ArityWrong(version)
    /\ CoreError(version) = ValueError("leading_zero", "major")
    /\ BuildError(version) = ValueError("empty", "build")
    /\ made.error = ValueError("leading_zero", "major")

(***************************************************************************)
(* The comparison claims, on the results the client has collected.         *)
(***************************************************************************)

a == objs[1]
b == objs[2]
c == objs[3]

Has(name) == name \in DOMAIN ret
TwoVersions == isinstance_Version(b)
SameCore == a.major = b.major /\ a.minor = b.minor /\ a.patch = b.patch

\* C1: of a < b, a == b and a > b exactly one is true, where < is the
\* method derived from __gt__ and __eq__.
C1_ExactlyOneOfLtEqGt ==
    (TwoVersions /\ Has("__eq__") /\ Has("__gt__") /\ Has("__lt__")) =>
        Cardinality({m \in {"__lt__", "__eq__", "__gt__"} : ret[m] = "True"}) = 1

\* a < b came out true for two pre-releases of one core triple
C1_Witness ==
    /\ pc = "__ge__"
    /\ TwoVersions /\ SameCore
    /\ a.pre_release # None /\ b.pre_release # None
    /\ ret["__lt__"] = "True" /\ ret["__eq__"] = "False" /\ ret["__gt__"] = "False"

\* C2: a == b is true exactly when major, minor and patch are equal and the
\* pre_release strings are both absent or the same string; the builds are
\* not looked at.
C2_EqualsIgnoresBuild ==
    (TwoVersions /\ Has("__eq__")) =>
        (ret["__eq__"] = "True") <=>
            /\ SameCore
            /\ \/ a.pre_release = None /\ b.pre_release = None
               \/ /\ a.pre_release # None /\ b.pre_release # None
                  /\ a.pre_release[1] = b.pre_release[1]

\* two Versions with the builds 'a' and 'b' compared equal
C2_Witness ==
    /\ pc = "__eq__"
    /\ TwoVersions
    /\ a.build = Some(<<"a">>) /\ b.build = Some(<<"b">>)
    /\ a.pre_release # None
    /\ ret["__eq__"] = "True"

(***************************************************************************)
(* The pre-release order as the specification words it: the first position *)
(* where the segments differ as strings decides.                           *)
(***************************************************************************)

Segments(raw) ==
    [n \in 1..(Cardinality(Positions(raw, ".")) + 1) |->
        LET i == CHOOSE k \in 1..(Len(raw) + 1) :
                    /\ (k = 1 \/ raw[k - 1] = ".")
                    /\ Cardinality({d \in Positions(raw, ".") : d < k}) = n - 1
        IN  SubSeq(raw, i, Cut(SubSeq(raw, i, Len(raw)), ".") + i - 2)]

Numeric(seg) == Len(seg) > 0 /\ \A k \in 1..Len(seg) : seg[k] \in Range(DigitChars)

\* the value of a string of digits, most significant digit first
RECURSIVE Pow10(_)
Pow10(n) == IF n = 0 THEN 1 ELSE 10 * Pow10(n - 1)
RECURSIVE Sum(_, _)
Sum(f, S) == IF S = {} THEN 0 ELSE LET x == CHOOSE y \in S : TRUE
                                   IN  f[x] + Sum(f, S \ {x})
Value(seg) ==
    Sum([k \in 1..Len(seg) |-> (ord(seg[k]) - 48) * Pow10(Len(seg) - k)], 1..Len(seg))

\* p is after q byte by byte: at the first byte that differs p's is larger,
\* or q is a proper prefix of p
LexAfter(p, q) ==
    \E k \in 1..Len(p) :
        /\ \A j \in 1..(k - 1) : j <= Len(q) /\ p[j] = q[j]
        /\ (k > Len(q) \/ (p[k] # q[k] /\ ord(p[k]) > ord(q[k])))

SegmentAfter(p, q) ==
    IF Numeric(p) /\ Numeric(q) THEN Value(p) > Value(q)
    ELSE IF Numeric(p) THEN FALSE
    ELSE IF Numeric(q) THEN TRUE
    ELSE LexAfter(p, q)

Differing(ps, qs) == {i \in 1..Len(ps) : i <= Len(qs) /\ ps[i] # qs[i]}

PreReleaseAfter(x, y) ==
    LET ps == Segments(x.pre_release[1])
        qs == Segments(y.pre_release[1])
    IN  IF Differing(ps, qs) = {} THEN Len(ps) > Len(qs)
        ELSE SegmentAfter(ps[Min(Differing(ps, qs))], qs[Min(Differing(ps, qs))])

BothPreReleases == a.pre_release # None /\ b.pre_release # None

\* C5: with equal core triples and two pre-releases, a > b is decided at the
\* first position where the segments differ: two numeric segments by their
\* integers, a numeric one below a non-numeric one, two non-numeric ones
\* byte by byte; when no compared position differs, more segments is greater.
C5_PreReleaseOrder ==
    (TwoVersions /\ Has("__gt__") /\ SameCore /\ BothPreReleases) =>
        (ret["__gt__"] = "True") <=> PreReleaseAfter(a, b)

\* 'x.10' > 'x.2': decided at the second position, by the integers
C5_Witness ==
    /\ pc = "__gt__"
    /\ TwoVersions /\ SameCore /\ BothPreReleases
    /\ Len(Segments(a.pre_release[1])) = 2 /\ Len(Segments(b.pre_release[1])) = 2
    /\ Segments(a.pre_release[1])[1] = Segments(b.pre_release[1])[1]
    /\ Segments(a.pre_release[1])[2] = <<"1", "0">>
    /\ Segments(b.pre_release[1])[2] = <<"2">>
    /\ ret["__gt__"] = "True"

C7_CoreOrder ==
    (TwoVersions /\ Has("__gt__") /\ ~SameCore) =>
        (ret["__gt__"] = "True") <=>
            \/ a.major > b.major
            \/ a.major = b.major /\ a.minor > b.minor
            \/ a.major = b.major /\ a.minor = b.minor /\ a.patch > b.patch

\* 2.10.x > 2.2.y although a is the pre-release and has the smaller patch
C7_Witness ==
    /\ pc = "__gt__"
    /\ TwoVersions
    /\ a.major = b.major /\ a.minor = 10 /\ b.minor = 2 /\ a.patch < b.patch
    /\ a.pre_release # None /\ b.pre_release = None
    /\ ret["__gt__"] = "True"

\* C8: each of the six methods, the derived ones too, returns NotImplemented
\* when the other operand is not a Version.
C8_NotImplementedForOtherTypes ==
    ~TwoVersions => \A m \in DOMAIN ret : ret[m] = NotImplemented

\* all six were called on a Version and the str '1.0.0'
C8_Witness ==
    /\ pc = "__ge__"
    /\ b.cls = "str"
    /\ DOMAIN ret = {"__eq__", "__gt__", "__ne__", "__lt__", "__le__", "__ge__"}
    /\ \A m \in DOMAIN ret : ret[m] = NotImplemented

\* C9: > is a strict order: a > a is never true, a > b and b > a are never
\* both true, and a > b with b > c gives a > c.
C9_StrictOrder ==
    /\ (Has("ab") /\ a = b) => ret["ab"] = "False"
    /\ (Has("ab") /\ Has("bc") /\ c = a) => ~(ret["ab"] = "True" /\ ret["bc"] = "True")
    /\ (Has("ab") /\ Has("bc") /\ Has("ac")) =>
          ((ret["ab"] = "True" /\ ret["bc"] = "True") => ret["ac"] = "True")

\* a > b > c through a numeric and a non-numeric segment and pre-releases
\* of different lengths
C9_Witness ==
    /\ pc = "ac"
    /\ ret["ab"] = "True" /\ ret["bc"] = "True" /\ ret["ac"] = "True"
    /\ a.major = c.major /\ a.minor = c.minor /\ a.patch = c.patch
    /\ a.pre_release # None /\ b.pre_release # None /\ c.pre_release # None
    /\ Len(pr_parts(a)) # Len(pr_parts(b))
    /\ ~isdigit(pr_parts(b)[1]) /\ isdigit(pr_parts(c)[1])

====
